---- MODULE Spec2Model ----
(***************************************************************************)
(* State-machine model of SpaceDebrisTracker.                              *)
(*                                                                         *)
(*   Spec       the class of src/code1.py (lock, try/except, encryption,   *)
(*              load), driven by a controller thread that may call any     *)
(*              public method, one call at a time, while the capture-loop  *)
(*              threads spawned by start_tracking run concurrently.        *)
(*   SpecMenu   the same class driven by start_menu, as __main__ runs it:  *)
(*              start_tracking once, then menu choices, stop and leave.    *)
(*   SpecFair   start_menu with the commands the loop reads (toggle,       *)
(*              stop), every loop thread scheduled fairly and a device     *)
(*              that never runs dry (liveness).                            *)
(*   SpecExtract  count_and_track_debris applied to one frame drawn from   *)
(*              all frames of up to MaxContours contours.                  *)
(*   SpecBasic  the class of src/space_debris_tracker.py (no lock, no      *)
(*              try/except, plain-text save, no load).                     *)
(*                                                                         *)
(* A step of a thread is one access to shared state (an attribute of self, *)
(* the device, the lock, the file); thread-local work is folded into the   *)
(* step that follows it. Calls that only log (a failing open() in           *)
(* save_debris_data, an invalid menu choice) change no state and are left  *)
(* out. start_tracking, imshow + waitKey and the append +                  *)
(* `self.debris_counter += 1` of an accepted contour are single steps.     *)
(***************************************************************************)
EXTENDS Integers, Sequences, FiniteSets, TLC

\* ---------------------------------------------------------------- bounds
\* contours of a frame handed to count_and_track_debris on its own
MaxContours == 3
\* start_tracking calls over one run (each spawns one loop thread)
MaxStarts == 2
\* frames the video device delivers before it is exhausted
MaxFrames == 2
\* method calls the controller makes over one run
MaxCalls == 3

\* ------------------------------------------------------ program constants
MinAreaDefault == 50
MaxAreaDefault == 1000

Threads == 1 .. MaxStarts

\* ------------------------------------------------------------ input data
\* A contour as the pipeline sees it: its contourArea and its moments.
B50 == [area |-> 50, m00 |-> 50, m10 |-> 1000, m01 |-> 500]
B120 == [area |-> 120, m00 |-> 120, m10 |-> 6000, m01 |-> 3600]
B300 == [area |-> 300, m00 |-> 300, m10 |-> 3100, m01 |-> 2000]
B1000 == [area |-> 1000, m00 |-> 1000, m10 |-> 7000, m01 |-> 9000]
\* a contour whose moments are degenerate
BZero == [area |-> 300, m00 |-> 0, m10 |-> 0, m01 |-> 0]

\* The contours findContours may return for a frame, in discovery order.
Frames == { <<B120, B300>>, <<B50, B1000>> }

\* Arguments the controller passes to set_min_area / set_max_area.
AreaInputs == {500}

\* ------------------------------------------------------------ data model
\* A Python value held in a record is <<kind, n>>:
\*   <<"int", n>>    the int n
\*   <<"num", n>>    the str that is the decimal numeral of n
\*   <<"label", 0>>  the str "Space Debris"
\*   <<"time", 0>>   the str datetime.now().strftime(...) (one second)
\*   <<"hdr", i>>    the str naming column i of the header
\* A cell of the CSV file is <<form, kind, n>>:
\*   "text"       the str <<kind, n>> written as it is
\*   "token"      the text of a Fernet token of the str <<kind, n>>
\*   "reprtoken"  the text b'...' that str() makes of a bytes token
\*   "junk"       text that is no token at all
IntVal(n) == <<"int", n>>
Label == <<"label", 0>>
Now == <<"time", 0>>

\* the quotient rounded up (mutation of Trunc)
TruncUp(a, b) == (a + b - 1) \div b
\* int(a / b) for b # 0: float division truncated toward zero
Trunc(a, b) ==
    LET q == (IF a < 0 THEN -a ELSE a) \div (IF b < 0 THEN -b ELSE b)
    IN IF (a < 0) = (b < 0) THEN q ELSE -q

\* the tuple appended to debris_positions
DebrisTuple(fn, blob) ==
    << IntVal(fn), Label, Now,
       IntVal(Trunc(blob.m10, blob.m00)), IntVal(Trunc(blob.m01, blob.m00)) >>

\* str(item)
Str(v) == IF v[1] = "int" THEN <<"num", v[2]>> ELSE v

\* encrypt_message(message): the bytes token of the str
encrypt_message(s) == <<"token", s[1], s[2]>>

\* csv.writer writes a str as it is and anything else through str();
\* str() of a bytes token is the text b'...'
CsvCell(v) ==
    IF Len(v) = 3 THEN <<"reprtoken", v[2], v[3]>> ELSE <<"text", Str(v)[1], Str(v)[2]>>

\* Fernet.decrypt accepts the text of a token and nothing else
CanDecrypt(cell) == cell[1] = "token"
decrypt_message(cell) == <<cell[2], cell[3]>>

HeaderRow == [i \in 1 .. 5 |-> <<"text", "hdr", i>>]

\* the row save_debris_data writes for one record
EncryptedRow(rec) == [i \in 1 .. Len(rec) |-> CsvCell(encrypt_message(Str(rec[i])))]
\* the row space_debris_tracker.py writes for one record
PlainRow(rec) == [i \in 1 .. Len(rec) |-> CsvCell(rec[i])]

\* int(debris[0])
FrameOf(rec) == rec[1][2]

\* Files that may lie at `filename` when the program starts: none, an empty
\* file, a well-formed file of token cells, and one whose last row is damaged.
TokenRow(fn, x, y) ==
    << <<"token", "num", fn>>, <<"token", "label", 0>>, <<"token", "time", 0>>,
       <<"token", "num", x>>, <<"token", "num", y>> >>
JunkRow == [i \in 1 .. 5 |-> <<"junk", "num", 0>>]
GoodFile == << HeaderRow, TokenRow(1, 7, 7), TokenRow(2, 8, 8) >>
TornFile == << HeaderRow, TokenRow(2, 8, 8), JunkRow >>
InitialFiles ==
    { [exists |-> FALSE, rows |-> <<>>], [exists |-> TRUE, rows |-> <<>>],
      [exists |-> TRUE, rows |-> GoodFile], [exists |-> TRUE, rows |-> TornFile] }

\* ----------------------------------------------------------------- state
VARIABLES
    thread_active,          \* self.thread_active
    cap,                    \* self.cap: "open" or "released"
    frame_number,           \* self.frame_number
    debris_data,            \* self.debris_data
    debris_counter,         \* self.debris_counter
    min_area, max_area,     \* self.min_area, self.max_area
    visualization_enabled,  \* self.visualization_enabled
    lock,                   \* self.lock: 0 free, else the holding thread
    window,                 \* a HighGUI window exists
    file,                   \* the CSV file: [exists, rows]
    pc,                     \* position of each loop thread
    readOpen,               \* per thread: the device was open when read() began
    frame,                  \* per thread: contours of the fetched frame
    idx,                    \* per thread: position of the for loop
    mn,                     \* per thread: did min_area < area hold (and the min read)
    tmp,                    \* per thread: frame_number loaded by +=
    debris_positions,       \* per thread: debris_positions / debris_info
    cpc,                    \* position of the controller thread
    crow,                   \* controller: index of save's / load's iteration
    calls,                  \* controller: method calls made so far
    \* history variables (not program state)
    spawned,                \* loop threads started so far
    fetched,                \* frames fetched successfully so far
    decided,                \* per thread: the area test of each contour handled so far
                            \* (mx is 0 where max_area was not read)
    returned,               \* batches returned by the pipeline, concatenated
    loaded,                 \* load_debris_data has replaced the log
    preLoad,                \* the log when the last load was called
    sinceLoad,              \* records the loop appended since the last load was called
    last_load,              \* outcome of the last load: "none", "running", "ok", "failed"
    stopped,                \* stop_tracking set thread_active False and no start followed
    frameAtStop,            \* frame_number when it did
    batchesSinceStop,       \* extends of the log since it did
    frameAtExit,            \* frame_number when the last running loop first ended (-1: not yet)
    savedLog,               \* the log when the last save_debris_data was called
    roundTrip,              \* a save and a load of its file without appends in between:
                            \* "none", "saving", "saved", "loading", "done"
    inForce                 \* the pairs <<min_area, max_area>> the tracker has held

prog == << thread_active, cap, frame_number, debris_data, debris_counter, min_area,
           max_area, visualization_enabled, lock, window, file >>
loopv == << pc, readOpen, frame, idx, mn, tmp, debris_positions >>
ctlv == << cpc, crow, calls >>
hist == << spawned, fetched, decided, returned, loaded, preLoad, sinceLoad,
           last_load, stopped, frameAtStop, batchesSinceStop >>
aux == << frameAtExit, savedLog, roundTrip, inForce >>
vars == << prog, loopv, ctlv, hist, aux >>

\* __init__
Init ==
    /\ thread_active = FALSE
    /\ cap = "open"
    /\ frame_number = 0
    /\ debris_data = <<>>
    /\ debris_counter = 0
    /\ min_area = MinAreaDefault
    /\ max_area = MaxAreaDefault
    /\ visualization_enabled = TRUE
    /\ lock = 0
    /\ window = FALSE
    /\ file \in InitialFiles
    /\ pc = [t \in Threads |-> "none"]
    /\ readOpen = [t \in Threads |-> FALSE]
    /\ frame = [t \in Threads |-> <<>>]
    /\ idx = [t \in Threads |-> 0]
    /\ mn = [t \in Threads |-> 0]
    /\ tmp = [t \in Threads |-> 0]
    /\ debris_positions = [t \in Threads |-> <<>>]
    /\ cpc = "idle"
    /\ crow = 0
    /\ calls = 0
    /\ spawned = 0
    /\ fetched = 0
    /\ decided = [t \in Threads |-> <<>>]
    /\ returned = <<>>
    /\ loaded = FALSE
    /\ preLoad = <<>>
    /\ sinceLoad = <<>>
    /\ last_load = "none"
    /\ stopped = FALSE
    /\ frameAtStop = 0
    /\ batchesSinceStop = 0
    /\ frameAtExit = -1
    /\ savedLog = <<>>
    /\ roundTrip = "none"
    /\ inForce = { <<MinAreaDefault, MaxAreaDefault>> }


\* ------------------------------------------------- capture loop (code1.py)
\* a non-strict first comparison (mutation of MinOk)
MinOkInclusive(a, area) == a <= area
\* the first comparison of `self.min_area < area < self.max_area`
MinOk(a, area) == a < area
\* the second comparison of `self.min_area < area < self.max_area`
MaxOk(area, b) == area < b
\* the batch assigned in place of the list (mutation of ExtendList)
ExtendListReplace(list, items) == items
\* the batch put in front of the list (mutation of ExtendList)
ExtendListFront(list, items) == items \o list
\* self.debris_data.extend(debris_info)
ExtendList(list, items) == list \o items

\* the process has not died (see ReadCrash)
Alive == cpc # "crashed"

\* threads running update_debris_info
Running == { t \in Threads : pc[t] \notin {"none", "done", "raised"} }

\* thread t leaves update_debris_info: frame_number is noted the first time
\* no loop is left running
ExitNote(t) ==
    IF frameAtExit = -1 /\ Running \ {t} = {} THEN frame_number ELSE frameAtExit

\* while self.thread_active:
LoopWhile(t) ==
    /\ Alive
    /\ pc[t] = "while"
    /\ pc' = [pc EXCEPT ![t] = IF thread_active THEN "read" ELSE "done"]
    /\ frameAtExit' = IF thread_active THEN frameAtExit ELSE ExitNote(t)
    /\ UNCHANGED << prog, readOpen, frame, idx, mn, tmp, debris_positions, ctlv, hist,
                    savedLog, roundTrip, inForce >>

\* self.cap.read() is entered
ReadBegin(t) ==
    /\ Alive
    /\ pc[t] = "read"
    /\ pc' = [pc EXCEPT ![t] = "reading"]
    /\ readOpen' = [readOpen EXCEPT ![t] = (cap = "open")]
    /\ UNCHANGED << prog, frame, idx, mn, tmp, debris_positions, ctlv, hist, aux >>

\* self.cap.read() returns a frame: the device was open when the read began
\* (a release that ran during the read races with it, so a frame may still
\* come back)
ReadFrame(t) ==
    /\ Alive
    /\ pc[t] = "reading"
    /\ readOpen[t]
    /\ fetched < MaxFrames
    /\ \E f \in Frames : frame' = [frame EXCEPT ![t] = f]
    /\ fetched' = fetched + 1
    /\ readOpen' = [readOpen EXCEPT ![t] = FALSE]
    /\ pc' = [pc EXCEPT ![t] = "inc_load"]
    /\ UNCHANGED << prog, idx, mn, tmp, debris_positions, ctlv,
                    spawned, decided, returned, loaded, preLoad, sinceLoad,
                    last_load, stopped, frameAtStop, batchesSinceStop, aux >>

\* self.cap.read() returns ret = False (released device, exhausted or failing
\* device): logging.warning, break
ReadFail(t) ==
    /\ Alive
    /\ pc[t] = "reading"
    /\ readOpen' = [readOpen EXCEPT ![t] = FALSE]
    /\ pc' = [pc EXCEPT ![t] = "done"]
    /\ frameAtExit' = ExitNote(t)
    /\ UNCHANGED << prog, frame, idx, mn, tmp, debris_positions, ctlv, hist,
                    savedLog, roundTrip, inForce >>

\* cap.release() ran while read() was inside the native capture code: the
\* process may die there, and every thread with it
ReadCrash(t) ==
    /\ Alive
    /\ pc[t] = "reading"
    /\ readOpen[t]
    /\ cap = "released"
    /\ cpc' = "crashed"
    /\ UNCHANGED << prog, loopv, crow, calls, hist, aux >>

\* self.frame_number += 1, the load of self.frame_number
IncLoad(t) ==
    /\ Alive
    /\ pc[t] = "inc_load"
    /\ tmp' = [tmp EXCEPT ![t] = frame_number]
    /\ pc' = [pc EXCEPT ![t] = "inc_store"]
    /\ UNCHANGED << prog, readOpen, frame, idx, mn, debris_positions, ctlv, hist, aux >>

\* self.frame_number += 1, the store; count_and_track_debris is entered
IncStore(t) ==
    /\ Alive
    /\ pc[t] = "inc_store"
    /\ frame_number' = tmp[t] + 1
    /\ tmp' = [tmp EXCEPT ![t] = 0]
    /\ idx' = [idx EXCEPT ![t] = 1]
    /\ debris_positions' = [debris_positions EXCEPT ![t] = <<>>]
    /\ pc' = [pc EXCEPT ![t] = "for"]
    /\ UNCHANGED << thread_active, cap, debris_data, debris_counter, min_area, max_area,
                    visualization_enabled, lock, window, file,
                    readOpen, frame, mn, ctlv, hist, aux >>

\* the history of the batches count_and_track_debris returned
Returned(batch) == IF spawned = 1 /\ ~loaded THEN returned \o batch ELSE returned

\* an exception inside the try block (the pipeline before the loop, or
\* contourArea / moments of contour idx): logging.error, return []
PipelineRaise(t) ==
    /\ Alive
    /\ pc[t] = "for"
    /\ debris_positions' = [debris_positions EXCEPT ![t] = <<>>]
    /\ decided' = [decided EXCEPT ![t] = <<>>]
    /\ returned' = Returned(<<>>)
    /\ pc' = [pc EXCEPT ![t] = "acquire"]
    /\ UNCHANGED << prog, readOpen, frame, idx, mn, tmp, ctlv, spawned, fetched, loaded,
                    preLoad, sinceLoad, last_load, stopped, frameAtStop, batchesSinceStop, aux >>

\* the for loop goes on to contour idx + 1, or count_and_track_debris returns
\* debris_positions (batch)
ForStep(t, batch) ==
    IF idx[t] < Len(frame[t])
    THEN /\ pc' = [pc EXCEPT ![t] = "for"]
         /\ returned' = returned
    ELSE /\ pc' = [pc EXCEPT ![t] = "acquire"]
         /\ returned' = Returned(batch)

\* for contour in contours: area = contourArea(contour); the first half of
\* `self.min_area < area < self.max_area`
ForMin(t) ==
    /\ Alive
    /\ pc[t] = "for"
    /\ IF MinOk(min_area, frame[t][idx[t]].area)
       THEN /\ pc' = [pc EXCEPT ![t] = "cmpmax"]
            /\ mn' = [mn EXCEPT ![t] = min_area]
            /\ UNCHANGED << idx, returned >>
            /\ decided' = decided
       ELSE /\ ForStep(t, debris_positions[t])
            /\ idx' = [idx EXCEPT ![t] = @ + 1]
            /\ mn' = mn
            /\ decided' = [decided EXCEPT ![t] = Append(@,
                    [area |-> frame[t][idx[t]].area, m00 |-> frame[t][idx[t]].m00,
                     mn |-> min_area, mx |-> 0, hit |-> FALSE])]
    /\ UNCHANGED << prog, readOpen, frame, tmp, debris_positions, ctlv, spawned, fetched,
                    loaded, preLoad, sinceLoad, last_load, stopped,
                    frameAtStop, batchesSinceStop, aux >>

\* the second half, `area < self.max_area`; M = moments(contour);
\* if M["m00"] != 0: append the tuple with self.frame_number;
\* self.debris_counter += 1
CmpMax(t) ==
    LET blob == frame[t][idx[t]]
        hit == MaxOk(blob.area, max_area) /\ blob.m00 # 0
        batch == IF hit THEN Append(debris_positions[t], DebrisTuple(frame_number, blob))
                 ELSE debris_positions[t]
    IN
    /\ Alive
    /\ pc[t] = "cmpmax"
    /\ debris_positions' = [debris_positions EXCEPT ![t] = batch]
    /\ debris_counter' = IF hit THEN debris_counter + 1 ELSE debris_counter
    /\ decided' = [decided EXCEPT ![t] = Append(@,
            [area |-> blob.area, m00 |-> blob.m00, mn |-> mn[t], mx |-> max_area,
             hit |-> hit])]
    /\ mn' = [mn EXCEPT ![t] = 0]
    /\ idx' = [idx EXCEPT ![t] = @ + 1]
    /\ ForStep(t, batch)
    /\ UNCHANGED << thread_active, cap, frame_number, debris_data, min_area, max_area,
                    visualization_enabled, lock, window, file,
                    readOpen, frame, tmp, ctlv, spawned, fetched, loaded,
                    preLoad, sinceLoad, last_load, stopped, frameAtStop, batchesSinceStop, aux >>

\* with self.lock: (acquire)
Acquire(t) ==
    /\ Alive
    /\ pc[t] = "acquire"
    /\ lock = 0
    /\ lock' = t
    /\ pc' = [pc EXCEPT ![t] = "extend"]
    /\ UNCHANGED << thread_active, cap, frame_number, debris_data, debris_counter,
                    min_area, max_area, visualization_enabled, window, file,
                    readOpen, frame, idx, mn, tmp, debris_positions, ctlv, hist, aux >>

\* a lock left held by the thread (mutation of LockAfterWith)
LockKept(t) == t
\* the lock when the `with self.lock:` block is left
LockAfterWith(t) == 0

\* records are appended (history: an append during or after a save-and-load
\* ends it; one between the save and the load does not)
AppendNote(batch) ==
    IF batch = <<>> \/ roundTrip = "saved" THEN roundTrip ELSE "none"

\* self.debris_data.extend(debris_info), and the lock is released
Extend(t) ==
    /\ Alive
    /\ pc[t] = "extend"
    /\ debris_data' = ExtendList(debris_data, debris_positions[t])
    /\ lock' = LockAfterWith(t)
    /\ roundTrip' = AppendNote(debris_positions[t])
    /\ sinceLoad' = IF last_load \in {"running", "failed"}
                    THEN sinceLoad \o debris_positions[t] ELSE sinceLoad
    /\ batchesSinceStop' = IF stopped THEN batchesSinceStop + 1 ELSE batchesSinceStop
    /\ pc' = [pc EXCEPT ![t] = "show"]
    /\ UNCHANGED << thread_active, cap, frame_number, debris_counter, min_area, max_area,
                    visualization_enabled, window, file,
                    readOpen, frame, idx, mn, tmp, debris_positions, ctlv, spawned,
                    fetched, decided, returned, loaded, preLoad, last_load, stopped,
                    frameAtStop, frameAtExit, savedLog, inForce >>

\* if self.visualization_enabled: putText, circle, imshow;
\* if cv2.waitKey(1) & 0xFF == ord('q'): break   (a key needs a window)
ShowWaitKey(t) ==
    /\ Alive
    /\ pc[t] = "show"
    /\ window' = (window \/ visualization_enabled)
    /\ \/ /\ pc' = [pc EXCEPT ![t] = "while"]
          /\ frameAtExit' = frameAtExit
       \/ /\ window'
          /\ pc' = [pc EXCEPT ![t] = "done"]
          /\ frameAtExit' = ExitNote(t)
    /\ frame' = [frame EXCEPT ![t] = <<>>]
    /\ idx' = [idx EXCEPT ![t] = 0]
    /\ debris_positions' = [debris_positions EXCEPT ![t] = <<>>]
    /\ decided' = [decided EXCEPT ![t] = <<>>]
    /\ UNCHANGED << thread_active, cap, frame_number, debris_data, debris_counter,
                    min_area, max_area, visualization_enabled, lock, file,
                    readOpen, mn, tmp, ctlv, spawned, fetched, returned, loaded,
                    preLoad, sinceLoad, last_load, stopped, frameAtStop, batchesSinceStop,
                    savedLog, roundTrip, inForce >>

\* update_debris_info
update_debris_info(t) ==
    \/ LoopWhile(t) \/ ReadBegin(t) \/ ReadFrame(t) \/ ReadFail(t) \/ ReadCrash(t)
    \/ IncLoad(t) \/ IncStore(t) \/ PipelineRaise(t) \/ ForMin(t) \/ CmpMax(t)
    \/ Acquire(t) \/ Extend(t) \/ ShowWaitKey(t)

\* ---------------------------------------------- controller thread (code1.py)
\* the controller makes its next method call
Call ==
    /\ cpc = "idle"
    /\ calls < MaxCalls
    /\ calls' = calls + 1

\* start_tracking: self.thread_active = True; Thread(...).start()
start_tracking ==
    /\ Call
    /\ spawned < MaxStarts
    /\ thread_active' = TRUE
    /\ spawned' = spawned + 1
    /\ pc' = [pc EXCEPT ![spawned + 1] = "while"]
    /\ stopped' = FALSE
    /\ batchesSinceStop' = 0
    /\ frameAtStop' = 0
    /\ returned' = IF spawned = 0 THEN returned ELSE <<>>
    /\ UNCHANGED << cap, frame_number, debris_data, debris_counter, min_area, max_area,
                    visualization_enabled, lock, window, file,
                    readOpen, frame, idx, mn, tmp, debris_positions, cpc, crow,
                    fetched, decided, loaded, preLoad, sinceLoad, last_load, aux >>

\* stop_tracking: self.thread_active = False
StopSetInactive ==
    /\ Call
    /\ thread_active' = FALSE
    /\ cpc' = "stop_release"
    /\ stopped' = TRUE
    /\ frameAtStop' = frame_number
    /\ batchesSinceStop' = 0
    /\ UNCHANGED << cap, frame_number, debris_data, debris_counter, min_area, max_area,
                    visualization_enabled, lock, window, file, loopv, crow,
                    spawned, fetched, decided, returned, loaded, preLoad, sinceLoad,
                    last_load, aux >>

\* stop_tracking: self.cap.release(); cv2.destroyAllWindows()
StopRelease ==
    /\ cpc = "stop_release"
    /\ cap' = "released"
    /\ window' = FALSE
    /\ cpc' = "idle"
    /\ UNCHANGED << thread_active, frame_number, debris_data, debris_counter, min_area,
                    max_area, visualization_enabled, lock, file, loopv, crow,
                    calls, hist, aux >>

\* save_debris_data: open(filename, 'w') truncates; the header row is written
SaveOpen ==
    /\ Call
    /\ file' = [exists |-> TRUE, rows |-> << HeaderRow >>]
    /\ cpc' = "save_row"
    /\ crow' = 1
    /\ savedLog' = debris_data
    /\ roundTrip' = "saving"
    /\ UNCHANGED << thread_active, cap, frame_number, debris_data, debris_counter,
                    min_area, max_area, visualization_enabled, lock, window,
                    loopv, hist, frameAtExit, inForce >>

\* an iterator that skips a record (mutation of SaveNext)
SaveNextSkip(i) == i + 2
\* the list iterator of `for debris_info in self.debris_data` moves on
SaveNext(i) == i + 1

\* for debris_info in self.debris_data: writer.writerow(encrypted_data)
\* (the iterator walks the live list); a failing write is caught and logged
SaveRow ==
    /\ cpc = "save_row"
    /\ crow <= Len(debris_data)
    /\ \/ /\ file' = [file EXCEPT !.rows = Append(@, EncryptedRow(debris_data[crow]))]
          /\ crow' = SaveNext(crow)
          /\ cpc' = cpc
          /\ roundTrip' = roundTrip
       \/ /\ cpc' = "idle"
          /\ crow' = 0
          /\ file' = file
          /\ roundTrip' = "none"
    /\ UNCHANGED << thread_active, cap, frame_number, debris_data, debris_counter,
                    min_area, max_area, visualization_enabled, lock, window,
                    loopv, calls, hist, frameAtExit, savedLog, inForce >>

\* the iterator is exhausted: the file is closed, logging.info
SaveClose ==
    /\ cpc = "save_row"
    /\ crow > Len(debris_data)
    /\ cpc' = "idle"
    /\ crow' = 0
    /\ roundTrip' = IF roundTrip = "saving" THEN "saved" ELSE roundTrip
    /\ UNCHANGED << prog, loopv, calls, hist, frameAtExit, savedLog, inForce >>

\* load_debris_data: open(filename, 'r') raises (no such file), caught and logged
LoadOpenFail ==
    /\ Call
    /\ ~file.exists
    /\ preLoad' = debris_data
    /\ sinceLoad' = <<>>
    /\ last_load' = "failed"
    /\ UNCHANGED << prog, loopv, cpc, crow, spawned, fetched, decided, returned, loaded,
                    stopped, frameAtStop, batchesSinceStop, aux >>

\* load_debris_data: the file opens; self.debris_data = []
LoadOpen ==
    /\ Call
    /\ file.exists
    /\ debris_data' = <<>>
    /\ cpc' = "load_header"
    /\ preLoad' = debris_data
    /\ sinceLoad' = <<>>
    /\ last_load' = "running"
    /\ loaded' = TRUE
    /\ returned' = <<>>
    /\ roundTrip' = IF roundTrip = "saved" THEN "loading" ELSE "none"
    /\ UNCHANGED << thread_active, cap, frame_number, debris_counter, min_area, max_area,
                    visualization_enabled, lock, window, file, loopv, crow,
                    spawned, fetched, decided, stopped, frameAtStop, batchesSinceStop,
                    frameAtExit, savedLog, inForce >>

\* load_debris_data returns (history: a load of the file just saved is done)
LoadEnds == IF roundTrip = "loading" THEN "done" ELSE roundTrip

\* next(reader): skips the first row; StopIteration on an empty file is caught
LoadHeader ==
    /\ cpc = "load_header"
    /\ IF Len(file.rows) = 0
       THEN /\ cpc' = "idle"
            /\ crow' = 0
            /\ last_load' = "failed"
            /\ roundTrip' = LoadEnds
       ELSE /\ cpc' = "load_row"
            /\ crow' = 2
            /\ last_load' = last_load
            /\ roundTrip' = roundTrip
    /\ UNCHANGED << prog, loopv, calls, spawned, fetched, decided, returned, loaded,
                    preLoad, sinceLoad, stopped, frameAtStop, batchesSinceStop,
                    frameAtExit, savedLog, inForce >>

\* for row in reader: decrypt every item; self.debris_data.append(tuple(...));
\* a failing decrypt_message is caught and logged, the load ends there
LoadRow ==
    /\ cpc = "load_row"
    /\ crow <= Len(file.rows)
    /\ LET row == file.rows[crow] IN
       IF \A i \in 1 .. Len(row) : CanDecrypt(row[i])
       THEN /\ debris_data' =
                  Append(debris_data, [i \in 1 .. Len(row) |-> decrypt_message(row[i])])
            /\ crow' = crow + 1
            /\ cpc' = cpc
            /\ last_load' = last_load
            /\ roundTrip' = roundTrip
       ELSE /\ debris_data' = debris_data
            /\ crow' = 0
            /\ cpc' = "idle"
            /\ last_load' = "failed"
            /\ roundTrip' = LoadEnds
    /\ UNCHANGED << thread_active, cap, frame_number, debris_counter, min_area, max_area,
                    visualization_enabled, lock, window, file, loopv, calls,
                    spawned, fetched, decided, returned, loaded, preLoad, sinceLoad,
                    stopped, frameAtStop, batchesSinceStop, frameAtExit, savedLog, inForce >>

\* the reader is exhausted: logging.info
LoadDone ==
    /\ cpc = "load_row"
    /\ crow > Len(file.rows)
    /\ cpc' = "idle"
    /\ crow' = 0
    /\ last_load' = "ok"
    /\ preLoad' = <<>>
    /\ sinceLoad' = <<>>
    /\ roundTrip' = LoadEnds
    /\ UNCHANGED << prog, loopv, calls, spawned, fetched, decided, returned, loaded,
                    stopped, frameAtStop, batchesSinceStop, frameAtExit, savedLog, inForce >>

\* plot_debris_counts: the list comprehension starts walking self.debris_data
PlotBegin ==
    /\ Call
    /\ cpc' = "plot"
    /\ UNCHANGED << prog, loopv, crow, hist, aux >>

\* plot_debris_counts: np.unique, the chart is shown and closed
PlotEnd ==
    /\ cpc = "plot"
    /\ cpc' = "idle"
    /\ UNCHANGED << prog, loopv, crow, calls, hist, aux >>

\* toggle_visualization
toggle_visualization ==
    /\ Call
    /\ visualization_enabled' = ~visualization_enabled
    /\ UNCHANGED << thread_active, cap, frame_number, debris_data, debris_counter,
                    min_area, max_area, lock, window, file, loopv, cpc, crow,
                    hist, aux >>

\* set_min_area(min_area)
set_min_area(v) ==
    /\ Call
    /\ min_area' = v
    /\ inForce' = inForce \cup { <<v, max_area>> }
    /\ UNCHANGED << thread_active, cap, frame_number, debris_data, debris_counter,
                    max_area, visualization_enabled, lock, window, file,
                    loopv, cpc, crow, hist, frameAtExit, savedLog, roundTrip >>

\* set_max_area(max_area)
set_max_area(v) ==
    /\ Call
    /\ max_area' = v
    /\ inForce' = inForce \cup { <<min_area, v>> }
    /\ UNCHANGED << thread_active, cap, frame_number, debris_data, debris_counter,
                    min_area, visualization_enabled, lock, window, file,
                    loopv, cpc, crow, hist, frameAtExit, savedLog, roundTrip >>

Controller ==
    \/ start_tracking \/ StopSetInactive \/ StopRelease
    \/ SaveOpen \/ SaveRow \/ SaveClose
    \/ LoadOpenFail \/ LoadOpen \/ LoadHeader \/ LoadRow \/ LoadDone
    \/ PlotBegin \/ PlotEnd
    \/ toggle_visualization
    \/ \E v \in AreaInputs : set_min_area(v)
    \/ \E v \in AreaInputs : set_max_area(v)

Next ==
    \/ Controller
    \/ \E t \in Threads : update_debris_info(t)

Spec == Init /\ [][Next]_vars

\* ------------------------------------------------ start_menu (code1.py)
\* start_menu: self.start_tracking() before the menu loop
MenuStart ==
    /\ spawned = 0
    /\ start_tracking

\* start_menu: one pass of `while True` with a valid choice. The loop is left
\* (break) right after stop_tracking, the one place that releases the device.
MenuChoice ==
    /\ spawned = 1
    /\ cap = "open"
    /\ \/ toggle_visualization
       \/ SaveOpen
       \/ LoadOpenFail \/ LoadOpen
       \/ PlotBegin
       \/ \E v \in AreaInputs : set_min_area(v)
       \/ \E v \in AreaInputs : set_max_area(v)
       \/ StopSetInactive

\* the method the menu called goes on
MenuStep ==
    \/ SaveRow \/ SaveClose
    \/ LoadHeader \/ LoadRow \/ LoadDone
    \/ PlotEnd
    \/ StopRelease

NextMenu ==
    \/ MenuStart
    \/ MenuChoice
    \/ MenuStep
    \/ \E t \in Threads : update_debris_info(t)

\* the program as `python code1.py` runs it
SpecMenu == Init /\ [][NextMenu]_vars

\* ------------------------------------------- fair scheduling (code1.py)
\* self.cap.read() returns a frame after the MaxFrames frames the model
\* counts: the device goes on delivering. Such a frame holds no contour, and
\* frame_number and the count of fetches stay at the bound.
ReadFrameMore(t) ==
    /\ Alive
    /\ pc[t] = "reading"
    /\ readOpen[t]
    /\ fetched = MaxFrames
    /\ readOpen' = [readOpen EXCEPT ![t] = FALSE]
    /\ debris_positions' = [debris_positions EXCEPT ![t] = <<>>]
    /\ pc' = [pc EXCEPT ![t] = "acquire"]
    /\ UNCHANGED << prog, frame, idx, mn, tmp, ctlv, hist, aux >>

\* a step of the loop thread, the device never running dry
LoopStep(t) == update_debris_info(t) \/ ReadFrameMore(t)

\* start_menu: a pass whose choice is one the loop reads the effect of:
\* toggle_visualization (visualization_enabled) or stop_tracking
\* (thread_active, cap)
FairChoice ==
    /\ spawned = 1
    /\ cap = "open"
    /\ (toggle_visualization \/ StopSetInactive)

NextFair ==
    \/ MenuStart
    \/ FairChoice
    \/ StopRelease
    \/ \E t \in Threads : LoopStep(t)

\* no command of NextFair touches the file
InitFair == Init /\ ~file.exists

\* start_menu with these commands, every loop thread scheduled again and
\* again and every cap.read() returning
SpecFair == InitFair /\ [][NextFair]_vars /\ \A t \in Threads : WF_vars(LoopStep(t))

\* ------------------------------------- count_and_track_debris on its own
\* the contours findContours may return, and the frames made of them
Blobs == { B50, B120, B300, B1000, BZero }
ExtractFrames == UNION { [1 .. n -> Blobs] : n \in 1 .. MaxContours }

\* the first loop thread has fetched its first frame and enters
\* count_and_track_debris, under thresholds the configuration may give
InitExtract ==
    /\ thread_active = TRUE
    /\ cap = "open"
    /\ frame_number = 1
    /\ debris_data = <<>>
    /\ debris_counter = 0
    /\ min_area \in {MinAreaDefault} \cup AreaInputs
    /\ max_area \in {MaxAreaDefault} \cup AreaInputs
    /\ visualization_enabled = TRUE
    /\ lock = 0
    /\ window = FALSE
    /\ file = [exists |-> FALSE, rows |-> <<>>]
    /\ pc = [t \in Threads |-> IF t = 1 THEN "for" ELSE "none"]
    /\ readOpen = [t \in Threads |-> FALSE]
    /\ frame \in { [t \in Threads |-> IF t = 1 THEN f ELSE <<>>] : f \in ExtractFrames }
    /\ idx = [t \in Threads |-> IF t = 1 THEN 1 ELSE 0]
    /\ mn = [t \in Threads |-> 0]
    /\ tmp = [t \in Threads |-> 0]
    /\ debris_positions = [t \in Threads |-> <<>>]
    /\ cpc = "idle"
    /\ crow = 0
    /\ calls = 1
    /\ spawned = 1
    /\ fetched = 1
    /\ decided = [t \in Threads |-> <<>>]
    /\ returned = <<>>
    /\ loaded = FALSE
    /\ preLoad = <<>>
    /\ sinceLoad = <<>>
    /\ last_load = "none"
    /\ stopped = FALSE
    /\ frameAtStop = 0
    /\ batchesSinceStop = 0
    /\ frameAtExit = -1
    /\ savedLog = <<>>
    /\ roundTrip = "none"
    /\ inForce = { <<min_area, max_area>> }

\* count_and_track_debris(frame), contour by contour
NextExtract ==
    \/ ForMin(1)
    \/ CmpMax(1)
    \/ PipelineRaise(1)

SpecExtract == InitExtract /\ [][NextExtract]_vars

\* ----------------------------------------- space_debris_tracker.py variant
\* count_and_track_debris has no try block: an exception of the pipeline
\* leaves update_debris_info and ends the loop thread
PipelineRaiseBasic(t) ==
    /\ Alive
    /\ pc[t] = "for"
    /\ pc' = [pc EXCEPT ![t] = "raised"]
    /\ UNCHANGED << prog, readOpen, frame, idx, mn, tmp, debris_positions, ctlv, hist, aux >>

\* self.debris_data.extend(debris_info), without a lock
ExtendBasic(t) ==
    /\ Alive
    /\ pc[t] = "acquire"
    /\ debris_data' = ExtendList(debris_data, debris_positions[t])
    /\ roundTrip' = AppendNote(debris_positions[t])
    /\ batchesSinceStop' = IF stopped THEN batchesSinceStop + 1 ELSE batchesSinceStop
    /\ pc' = [pc EXCEPT ![t] = "show"]
    /\ UNCHANGED << thread_active, cap, frame_number, debris_counter, min_area, max_area,
                    visualization_enabled, lock, window, file,
                    readOpen, frame, idx, mn, tmp, debris_positions, ctlv, spawned,
                    fetched, decided, returned, loaded, preLoad, sinceLoad, last_load,
                    stopped, frameAtStop, frameAtExit, savedLog, inForce >>

update_debris_info_basic(t) ==
    \/ LoopWhile(t) \/ ReadBegin(t) \/ ReadFrame(t) \/ ReadFail(t) \/ ReadCrash(t)
    \/ IncLoad(t) \/ IncStore(t) \/ PipelineRaiseBasic(t) \/ ForMin(t) \/ CmpMax(t)
    \/ ExtendBasic(t) \/ ShowWaitKey(t)

\* for debris_info in self.debris_data: writer.writerow(debris_info);
\* a failing write is not caught and ends the calling thread
SaveRowBasic ==
    /\ cpc = "save_row"
    /\ crow <= Len(debris_data)
    /\ \/ /\ file' = [file EXCEPT !.rows = Append(@, PlainRow(debris_data[crow]))]
          /\ crow' = SaveNext(crow)
          /\ cpc' = cpc
          /\ roundTrip' = roundTrip
       \/ /\ cpc' = "raised"
          /\ crow' = 0
          /\ file' = file
          /\ roundTrip' = "none"
    /\ UNCHANGED << thread_active, cap, frame_number, debris_data, debris_counter,
                    min_area, max_area, visualization_enabled, lock, window,
                    loopv, calls, hist, frameAtExit, savedLog, inForce >>

\* start_menu calls toggle_visualization, set_min_area or set_max_area, which
\* this class does not define: AttributeError ends the controller thread
MissingMethod ==
    /\ Call
    /\ cpc' = "raised"
    /\ UNCHANGED << prog, loopv, crow, hist, aux >>

ControllerBasic ==
    \/ start_tracking \/ StopSetInactive \/ StopRelease
    \/ SaveOpen \/ SaveRowBasic \/ SaveClose
    \/ PlotBegin \/ PlotEnd
    \/ MissingMethod

NextBasic ==
    \/ ControllerBasic
    \/ \E t \in Threads : update_debris_info_basic(t)

SpecBasic == Init /\ [][NextBasic]_vars

\* ================================================================ claims
\* the batch a thread holds between the return of count_and_track_debris and
\* the extend
Pending(t) == IF pc[t] \in {"acquire", "extend"} THEN debris_positions[t] ELSE <<>>

\* C1: with one capture loop and no load, the log is the concatenation, in
\* iteration order, of the batches the pipeline returned: nothing lost,
\* duplicated or interleaved, whatever the controller did meanwhile.
C1_LogIsBatchesInOrder ==
    (spawned = 1 /\ ~loaded) => debris_data \o Pending(1) = returned

\* C1 witness: two iterations have appended two records each (frames 1 and 2)
\* while save_debris_data, the second command after toggle or a threshold
\* change, is walking the log.
C1_Witness ==
    /\ spawned = 1 /\ ~loaded /\ fetched = 2
    /\ Len(debris_data) = 4
    /\ FrameOf(debris_data[2]) = 1 /\ FrameOf(debris_data[3]) = 2
    /\ cpc = "save_row" /\ calls = 3
    /\ debris_data = returned

\* the loop holds the lock for its extend; save or plot walks the list; load
\* rebuilds it
AppendInProgress(t) == pc[t] = "extend"
SnapshotInProgress == cpc \in {"save_row", "plot"}
ReplaceInProgress == cpc \in {"load_header", "load_row"}
\* C2: append (the loop's extend), snapshot (save, plot) and replace (load)
\* never overlap on the log.
C2_LogOperationsExclusive ==
    /\ \A t \in Threads : AppendInProgress(t) => ~(SnapshotInProgress \/ ReplaceInProgress)
    /\ \A t, u \in Threads : AppendInProgress(t) /\ AppendInProgress(u) => t = u

\* C3: a load that failed has left the log as it was when load_debris_data
\* was called (plus what the loop appended since).
C3_FailedLoadKeepsLog ==
    last_load = "failed" => debris_data = preLoad \o sinceLoad

\* C4: the device is never released while a loop thread is inside read() or
\* has passed the `while` test and is about to call it.
C4_ReleaseAfterLoop ==
    cap = "released" => \A t \in Threads : pc[t] \notin {"read", "reading"}

\* the contours of a decision history that gave a record
Hits(seq) == { i \in 1 .. Len(seq) : seq[i].hit }
\* C5: a contour yields a record only if the min_area read is strictly below
\* its area and its area strictly below the max_area read; a contour strictly
\* inside (with m00 # 0) yields exactly one record, any other none.
C5_StrictAreaTest ==
    \A t \in Threads :
        /\ \A i \in 1 .. Len(decided[t]) :
              LET d == decided[t][i] IN
              /\ d.hit => d.mn < d.area /\ d.area < d.mx
              /\ (d.mn < d.area /\ d.area < d.mx /\ d.m00 # 0) => d.hit
        /\ Cardinality(Hits(decided[t])) = Len(debris_positions[t])

\* C5 witness: under min 50, max 1000 the first frame's contour of area 120
\* gave one record (x = 50, y = 30), and the second frame's contours of area
\* 50 and area 1000 gave none.
C5_Witness ==
    /\ pc[1] = "acquire"
    /\ decided[1] = << [area |-> 50, m00 |-> 50, mn |-> 50, mx |-> 0, hit |-> FALSE],
                       [area |-> 1000, m00 |-> 1000, mn |-> 50, mx |-> 1000, hit |-> FALSE] >>
    /\ debris_positions[1] = <<>>
    /\ Len(debris_data) = 2
    /\ debris_data[1] = DebrisTuple(1, B120)

NonDecreasing(seq) == \A i \in 1 .. Len(seq) - 1 : FrameOf(seq[i]) <= FrameOf(seq[i + 1])
OneFrame(seq) == \A i, j \in 1 .. Len(seq) : FrameOf(seq[i]) = FrameOf(seq[j])
\* C6: the frame numbers of the log are non-decreasing, and the records of
\* one batch carry one frame number.
C6_FrameNumbersOrdered ==
    /\ NonDecreasing(debris_data)
    /\ \A t \in Threads : OneFrame(debris_positions[t])

\* C7: after stop_tracking set thread_active False, frame_number grows by at
\* most 1 and at most one more batch is appended.
C7_OneIterationAfterStop ==
    stopped => frame_number <= frameAtStop + 1 /\ batchesSinceStop <= 1

\* threads between a successful fetch and the store of frame_number
Incrementing == { t \in Threads : pc[t] \in {"inc_load", "inc_store"} }
\* C8: frame_number is the number of successful fetches (those whose
\* increment is still in progress counted): a failed fetch adds nothing.
C8_FrameNumberCountsFetches ==
    frame_number + Cardinality(Incrementing) = fetched

\* C9: a failure inside the per-frame pipeline never ends a loop thread.
C9_PipelineFailureContained ==
    \A t \in Threads : pc[t] # "raised"

\* C10: at most one loop thread runs update_debris_info at any time.
C10_OneLoopThread ==
    Cardinality(Running) <= 1

\* C11: once no capture loop is left running (after stop_tracking, a failed
\* fetch or the quit key), frame_number never changes again, whatever is
\* called afterwards, start_tracking included.
C11_StoppedIsTerminal ==
    frameAtExit # -1 => frame_number = frameAtExit

\* the rows a save has written so far are the header and one row for each of
\* the first n records of the log
RowsOfPrefix(n) ==
    /\ Len(file.rows) = n + 1
    /\ file.rows[1] = HeaderRow
    /\ \A i \in 1 .. n :
          file.rows[i + 1] \in { EncryptedRow(debris_data[i]), PlainRow(debris_data[i]) }
\* C12: while save_debris_data runs, the rows written are the header and one
\* row per record of a prefix of the current log, in log order; the save ends
\* only when that prefix is the whole log, so the file it leaves holds exactly
\* the log of that instant, whatever the loop appended during the call.
C12_SaveWritesSnapshot ==
    cpc = "save_row" => crow <= Len(debris_data) + 1 /\ RowsOfPrefix(crow - 1)

\* C12 witness: a save that began on a shorter log has written the four
\* records the log holds now and is about to end.
C12_Witness ==
    /\ cpc = "save_row"
    /\ Len(debris_data) = 4
    /\ crow = 5
    /\ Len(savedLog) < 4
    /\ RowsOfPrefix(4)

\* every data row of the file decrypts; the records such a file holds
Decodable(rows) ==
    /\ Len(rows) >= 1
    /\ \A i \in 2 .. Len(rows) : \A j \in 1 .. Len(rows[i]) : CanDecrypt(rows[i][j])
FileRecords(rows) ==
    [i \in 1 .. Len(rows) - 1 |->
        [j \in 1 .. Len(rows[i + 1]) |-> decrypt_message(rows[i + 1][j])]]
\* C13: while load_debris_data runs, the log is either the complete log of
\* before the call or the complete list of the file's records, in both cases
\* followed by what the loop appended since; never empty or partly loaded.
C13_LoadIsAtomicSwap ==
    ReplaceInProgress =>
        \/ debris_data = preLoad \o sinceLoad
        \/ Decodable(file.rows) /\ debris_data = FileRecords(file.rows) \o sinceLoad

\* C14: a non-empty log saved by save_debris_data and loaded back from that
\* file by load_debris_data, with no append during either, is the log again,
\* field for field.
C14_RoundTrip ==
    (roundTrip = "done" /\ savedLog # <<>>) => debris_data = savedLog

IsPrefix(a, b) == Len(a) <= Len(b) /\ SubSeq(b, 1, Len(a)) = a
\* a step of load_debris_data that writes the log: `self.debris_data = []`
\* or the handling of one row
LoadStep ==
    \/ cpc = "idle" /\ cpc' = "load_header"
    \/ cpc = "load_row" /\ crow' # crow
\* C15: every step that is not a step of load_debris_data leaves the log a
\* prefix of the log after it: outside load the log is append-only.
C15_AppendOnlyOutsideLoad ==
    [][~LoadStep => IsPrefix(debris_data, debris_data')]_vars

\* C15 witness: the loop has appended two batches of two records, and the
\* controller has toggled the visualization and stopped the tracking; no load.
C15_Witness ==
    /\ ~loaded
    /\ Len(debris_data) = 4
    /\ ~visualization_enabled
    /\ cap = "released"
    /\ Running = {}

\* C16: under fair scheduling of the loop thread, with every read returning,
\* a stop_tracking call leads to a state where no loop thread is running (or
\* the process has died in the native read).
C16_LoopExitsAfterStop ==
    stopped ~> (Running = {} \/ ~Alive)

\* C16 witness: stop_tracking came while an iteration was in flight; that
\* iteration appended its batch and the loop then ended.
C16_Witness ==
    /\ stopped
    /\ batchesSinceStop = 1
    /\ Running = {}
    /\ pc[1] = "done"
    /\ Alive

\* C17: the thresholds always satisfy 0 < min_area < max_area.
C17_ThresholdsOrdered ==
    0 < min_area /\ min_area < max_area

\* C18: every contour that gave a record was compared against a pair
\* <<min_area, max_area>> that the tracker held at some instant.
C18_ConsistentThresholdPair ==
    \A t \in Threads : \A i \in 1 .. Len(decided[t]) :
        decided[t][i].hit => <<decided[t][i].mn, decided[t][i].mx>> \in inForce

\* the centroids of the contours 1 .. i of thread t's frame that gave a
\* record, in order: <<m10 / m00, m01 / m00>> with the fraction dropped
RECURSIVE Centroids(_, _)
Centroids(t, i) ==
    IF i = 0 THEN <<>>
    ELSE Centroids(t, i - 1) \o
         (IF decided[t][i].hit
          THEN << << frame[t][i].m10 \div frame[t][i].m00,
                     frame[t][i].m01 \div frame[t][i].m00 >> >>
          ELSE <<>>)
\* C19: the records of an iteration are, in order, those of its accepted
\* contours, each with x = m10 / m00 and y = m01 / m00 truncated to an
\* integer; a contour with m00 = 0 gives no record even when its area passes.
C19_CentroidTruncated ==
    \A t \in Threads :
        /\ \A i \in 1 .. Len(decided[t]) : decided[t][i].hit => decided[t][i].m00 # 0
        /\ LET exp == Centroids(t, Len(decided[t])) IN
           /\ Len(debris_positions[t]) = Len(exp)
           /\ \A k \in 1 .. Len(exp) :
                 /\ debris_positions[t][k][4] = IntVal(exp[k][1])
                 /\ debris_positions[t][k][5] = IntVal(exp[k][2])

\* C19 witness: a frame of three contours inside 50 .. 1000:
\* (m00 120, m10 6000, m01 3600) gave x 50, y 30; (m00 300, m10 3100,
\* m01 2000) gave x 10, y 6; the one with m00 = 0 gave no record.
C19_Witness ==
    /\ pc[1] = "acquire"
    /\ frame[1] = << B120, B300, BZero >>
    /\ Len(decided[1]) = 3
    /\ decided[1][3] = [area |-> 300, m00 |-> 0, mn |-> 50, mx |-> 1000, hit |-> FALSE]
    /\ debris_positions[1] = << << IntVal(1), Label, Now, IntVal(50), IntVal(30) >>,
                                << IntVal(1), Label, Now, IntVal(10), IntVal(6) >> >>

\* records the threads inside an iteration hold and have not yet appended
RECURSIVE InFlight(_)
InFlight(n) ==
    IF n = 0 THEN 0
    ELSE InFlight(n - 1) +
         (IF pc[n] \in {"for", "cmpmax", "acquire", "extend"}
          THEN Len(debris_positions[n]) ELSE 0)
\* C20: with no load performed, debris_counter is the number of records the
\* loop has appended to the log or is about to append.
C20_CounterMatchesLog ==
    ~loaded => debris_counter = Len(debris_data) + InFlight(MaxStarts)

====
